---- MODULE Spec2Model ----
(***************************************************************************)
(* A model of src/main.py: the three threads of the streaming-aggregation  *)
(* pipeline (Buffer, ETL, Display), the queue they share, the aggregation  *)
(* tables the ETL writes and the Display reads, and the caller (the script *)
(* at the end of main.py) that starts and stops them.                      *)
(*                                                                         *)
(* Every thread advances one shared-memory access at a time, so that every *)
(* interleaving the interpreter can produce is a behaviour of the model.   *)
(***************************************************************************)
EXTENDS Integers, Sequences, FiniteSets

\* ------------------------------------------------------------- bounds ----

\* The most records a bounded source hands out.
MaxRecords == 2

\* The most records the queue holds when the source is unbounded.
MaxQueue == 1

\* Where the counters stop counting when the source is unbounded: no thread
\* branches on more of a counter than whether it is 0.
NCap == 1

\* ------------------------------------------------------------ records ----

\* Records as silly_stream builds them (main.py 25-31), without the fields no
\* aggregation reads; RBad lacks "d", the grouping field of the second Agg.
RA == [c |-> "a", d |-> "c", x |-> -10]
RB == [c |-> "b", d |-> "d", x |-> 10]
RBad == [c |-> "a", x |-> -30]

Records == {RA, RB, RBad}

\* The value of a local that holds no record.
NoRecord == [none |-> TRUE]

\* The two aggregations of main.py 152-156: Agg(on="x", by="c") and
\* Agg(on="x", by="d"), in the order TransformerUnion visits them.
Aggs == <<[on |-> "x", by |-> "c"], [on |-> "x", by |-> "d"]>>

NumAggs == Len(Aggs)

Tasks == {"buffer", "etl", "display"}

VARIABLES
  streamKind,  \* what ETL.stream is: "buffer" (a Buffer) or "raw" (an iterator)
  bounded,     \* whether the source hands out at most MaxRecords records
  running,     \* running[t]: the flag self.running of task t
  pc,          \* pc[t]: where thread t is
  failure,     \* failure[t]: the exception that ended thread t, or "none"
  queue,       \* Buffer.records
  n,           \* ETL.n
  groups,      \* groups[k]: Agg k's groups, in insertion order
  record,      \* the ETL's loop variable
  k,           \* the Agg that learn_one is at (0: none)
  terminal,    \* the terminal: "released", or "acquired" by rich's Live
  acc,         \* Display: the operands read so far of the expression at hand
  percent,     \* Display: what _percent_processed returned, <<num, den>>
  progress,    \* Display: the ProgressBar built, <<total, completed>>
  snap,        \* Display: the copy list(agg.groups.items()), as its keys
  j,           \* Display: the Agg whose table is being made (0: none)
  i,           \* Display: the next row of snap to format
  row,         \* Display: the row just added, <<key, count, sum>>
  enqueued,    \* history: the records put into the queue, in order
  yielded,     \* history: the records Buffer.__iter__ yielded, in order
  afterStop,   \* history: the number of puts made after Buffer.stop()
  drain,       \* history: "clean" when the current drain began with nothing
               \* yielded before it and nothing was put since; "none" before
               \* the first drain; else "other"
  lateStart    \* history: the ETL was started after the Buffer thread ended

config == <<streamKind, bounded>>
etlVars == <<n, groups, record, k>>
dispVars == <<terminal, acc, percent, progress, snap, j, i, row>>
history == <<enqueued, yielded, afterStop, drain, lateStart>>
vars == <<streamKind, bounded, running, pc, failure, queue, n, groups, record, k,
          terminal, acc, percent, progress, snap, j, i, row,
          enqueued, yielded, afterStop, drain, lateStart>>

\* ------------------------------------------------------------ helpers ----

\* Mutant of the increment: the counter goes up by two.
BumpTwice(v) == IF ~bounded /\ v >= NCap THEN v ELSE v + 2

\* A counter incremented; an unbounded source's counters stop at NCap.
Bump(v) == IF ~bounded /\ v >= NCap THEN v ELSE v + 1

\* stats.Mean.update(x), the statistic kept as its count and its sum.
MeanUpdate(stat, x) ==
  IF ~bounded /\ stat.n >= NCap THEN stat
  ELSE [stat EXCEPT !.n = @ + 1, !.sum = @ + x]

\* The index of key in an Agg's groups, 0 when it has no entry.
IndexOf(g, key) ==
  IF \E m \in 1..Len(g) : g[m].key = key
  THEN CHOOSE m \in 1..Len(g) : g[m].key = key
  ELSE 0

\* A history grown by one record; an unbounded source keeps no history.
Logged(h, r) == IF bounded THEN Append(h, r) ELSE h

\* --------------------------------------------------------------- Init ----

\* The state after Buffer.__init__ (36-40), ETL.__init__ (76-81) and
\* Display.__init__ (109-112); with a raw iterator as the ETL's stream no
\* Buffer is built.
InitWith(kind, bnd) ==
  /\ streamKind = kind
  /\ bounded = bnd
  /\ running = [t \in Tasks |-> TRUE]
  /\ pc = [t \in Tasks |-> IF t = "buffer" /\ kind = "raw" THEN "absent" ELSE "created"]
  /\ failure = [t \in Tasks |-> "none"]
  /\ queue = <<>>
  /\ n = 0
  /\ groups = [a \in 1..NumAggs |-> <<>>]
  /\ record = NoRecord
  /\ k = 0
  /\ terminal = "released"
  /\ acc = <<>>
  /\ percent = <<>>
  /\ progress = <<>>
  /\ snap = <<>>
  /\ j = 0
  /\ i = 0
  /\ row = <<>>
  /\ enqueued = <<>>
  /\ yielded = <<>>
  /\ afterStop = 0
  /\ drain = "none"
  /\ lateStart = FALSE

Init == \E kind \in {"buffer", "raw"} : InitWith(kind, TRUE)

\* ------------------------------------------------------------- caller ----

\* The first position of run() in thread t.
Entry(t) == IF t = "display" THEN "enter" ELSE "loop"

\* Mutant of start(): a thread that has ended is run again.
StartAgain(t) ==
  IF pc[t] \in {"created", "done"}
  THEN /\ pc' = [pc EXCEPT ![t] = Entry(t)]
       /\ lateStart' = lateStart
  ELSE UNCHANGED <<pc, lateStart>>

\* Thread.start(): runs run() in a new thread; on a thread already started
\* it raises RuntimeError in the caller and changes nothing.
StartFrom(t) ==
  IF pc[t] = "created"
  THEN /\ pc' = [pc EXCEPT ![t] = Entry(t)]
       /\ lateStart' = IF t = "etl" THEN pc["buffer"] = "done" ELSE lateStart
  ELSE UNCHANGED <<pc, lateStart>>

Start(t) ==
  /\ pc[t] # "absent"
  /\ StartFrom(t)
  /\ UNCHANGED <<config, dispVars, running, failure, queue, etlVars,
                 enqueued, yielded, afterStop, drain>>

\* stop() of the three classes (42-43, 83-84, 114-115).
StopFlag(t) == [running EXCEPT ![t] = FALSE]

Stop(t) ==
  /\ pc[t] # "absent"
  /\ running' = StopFlag(t)
  /\ UNCHANGED <<config, dispVars, pc, failure, queue, etlVars, history>>

\* ------------------------------------------------------------- Buffer ----

\* Mutant of the test of line 46: the flag is not looked at.
BufferTestBlind == "pull"

\* Buffer.run, line 46: the test of self.running.
BufferTest == IF running["buffer"] THEN "pull" ELSE "done"

BufferLoop ==
  /\ pc["buffer"] = "loop"
  /\ pc' = [pc EXCEPT !["buffer"] = BufferTest]
  /\ UNCHANGED <<config, dispVars, running, failure, queue, etlVars, history>>

\* Buffer.run, line 47: next(self.stream) returns r and records.put(r).
BufferPut ==
  /\ pc["buffer"] = "pull"
  /\ IF bounded THEN Len(enqueued) < MaxRecords ELSE Len(queue) < MaxQueue
  /\ \E r \in Records :
       /\ queue' = Append(queue, r)
       /\ enqueued' = Logged(enqueued, r)
  /\ afterStop' = IF running["buffer"] THEN afterStop ELSE afterStop + 1
  /\ drain' = IF drain = "clean" THEN "other" ELSE drain
  /\ pc' = [pc EXCEPT !["buffer"] = "loop"]
  /\ UNCHANGED <<config, dispVars, running, failure, etlVars, yielded, lateStart>>

\* Buffer.run, line 47: next(self.stream) raises (the source is exhausted or
\* fails); the exception ends the thread.
BufferSourceEnds ==
  /\ pc["buffer"] = "pull"
  /\ pc' = [pc EXCEPT !["buffer"] = "done"]
  /\ failure' = [failure EXCEPT !["buffer"] = "StopIteration"]
  /\ UNCHANGED <<config, dispVars, running, queue, etlVars, history>>

\* ---------------------------------------------------------------- ETL ----

\* ETL.run, line 102: the test of self.running; a true test starts the for
\* loop of line 103, which calls iter(self.stream).
EtlTest == IF running["etl"] THEN "iter" ELSE "done"

EtlLoop ==
  /\ pc["etl"] = "loop"
  /\ pc' = [pc EXCEPT !["etl"] = EtlTest]
  /\ drain' = IF running["etl"] /\ bounded /\ streamKind = "buffer"
              THEN (IF yielded = <<>> THEN "clean" ELSE "other")
              ELSE drain
  /\ UNCHANGED <<config, dispVars, running, failure, queue, etlVars, enqueued, yielded,
                 afterStop, lateStart>>

\* Mutant of the test of line 50: get() is called without the test.
IterTestNever == "get"

\* Mutant of the test of line 50: the drain stops one record early.
IterTestEarly == IF Len(queue) <= 1 THEN "loop" ELSE "get"

\* Buffer.__iter__, line 50: the test of records.empty().
IterTest == IF queue = <<>> THEN "loop" ELSE "get"

EtlIter ==
  /\ pc["etl"] = "iter"
  /\ streamKind = "buffer"
  /\ pc' = [pc EXCEPT !["etl"] = IterTest]
  /\ UNCHANGED <<config, dispVars, running, failure, queue, etlVars, history>>

\* Mutants of get(): the newest record is handed out instead of the oldest;
\* the record handed out stays in the queue.
DequeuedNewest == queue[Len(queue)]
RemainingAll == queue

\* Mutant of get(): the records behind the one handed out are dropped.
RemainingNone == <<>>

\* queue.Queue.get(): the record removed and what is left.
Dequeued == Head(queue)
Remaining == Tail(queue)

\* Buffer.__iter__, line 51: records.get() (which waits while the queue is
\* empty) and the yield of the record to the for loop of line 103.
EtlGet ==
  /\ pc["etl"] = "get"
  /\ queue # <<>>
  /\ record' = Dequeued
  /\ queue' = Remaining
  /\ yielded' = Logged(yielded, Dequeued)
  /\ k' = 1
  /\ pc' = [pc EXCEPT !["etl"] = "look"]
  /\ UNCHANGED <<config, dispVars, running, failure, n, groups, enqueued, afterStop,
                 drain, lateStart>>

\* ETL.run, line 103, over a raw iterator: next() returns a record.
EtlRawNext ==
  /\ pc["etl"] = "iter"
  /\ streamKind = "raw"
  /\ bounded => n < MaxRecords
  /\ \E r \in Records : record' = r
  /\ k' = 1
  /\ pc' = [pc EXCEPT !["etl"] = "look"]
  /\ UNCHANGED <<config, dispVars, running, failure, queue, n, groups, history>>

\* ETL.run, line 103, over a raw iterator: next() raises StopIteration, which
\* ends the for loop.
EtlRawEnds ==
  /\ pc["etl"] = "iter"
  /\ streamKind = "raw"
  /\ pc' = [pc EXCEPT !["etl"] = "loop"]
  /\ UNCHANGED <<config, dispVars, running, failure, queue, etlVars, history>>

\* Mutant of the lookup: an entry is made whether or not the key has one.
CreatedAlways(g, key) == Append(g, [key |-> key, n |-> 0, sum |-> 0])

\* ETL.run, line 104, learn_one of Agg k, first half: the key is read from
\* the record (KeyError when the record lacks the field, which ends the
\* thread) and groups[key] is looked up, which creates the entry of a key
\* not seen before with a fresh statistic.
Created(g, key) ==
  IF IndexOf(g, key) = 0 THEN Append(g, [key |-> key, n |-> 0, sum |-> 0]) ELSE g

EtlLookup ==
  /\ pc["etl"] = "look"
  /\ IF Aggs[k].by \in DOMAIN record
     THEN /\ groups' = [groups EXCEPT ![k] = Created(@, record[Aggs[k].by])]
          /\ pc' = [pc EXCEPT !["etl"] = "update"]
          /\ UNCHANGED failure
     ELSE /\ pc' = [pc EXCEPT !["etl"] = "done"]
          /\ failure' = [failure EXCEPT !["etl"] = "KeyError"]
          /\ UNCHANGED groups
  /\ UNCHANGED <<config, dispVars, running, queue, n, record, k, history>>

\* ETL.run, line 104, learn_one of Agg k, second half: the statistic of the
\* record's key is updated with the record's value; then the next Agg's turn.
Updated(g, r, a) ==
  [g EXCEPT ![IndexOf(g, r[a.by])] = MeanUpdate(@, r[a.on])]

EtlUpdate ==
  /\ pc["etl"] = "update"
  /\ groups' = [groups EXCEPT ![k] = Updated(@, record, Aggs[k])]
  /\ IF k < NumAggs
     THEN /\ k' = k + 1
          /\ pc' = [pc EXCEPT !["etl"] = "look"]
     ELSE /\ k' = 0
          /\ pc' = [pc EXCEPT !["etl"] = "incr"]
  /\ UNCHANGED <<config, dispVars, running, failure, queue, n, record, history>>

\* ETL.run, line 105: self.n += 1, and the for loop asks for the next record.
EtlIncr ==
  /\ pc["etl"] = "incr"
  /\ n' = Bump(n)
  /\ record' = NoRecord
  /\ pc' = [pc EXCEPT !["etl"] = "iter"]
  /\ UNCHANGED <<config, dispVars, running, failure, queue, groups, k, history>>

\* ------------------------------------------------------------ Display ----

\* The Display's locals when it holds none.
Idle ==
  /\ acc' = <<>>
  /\ percent' = <<>>
  /\ progress' = <<>>
  /\ snap' = <<>>
  /\ j' = 0
  /\ i' = 0
  /\ row' = <<>>

\* Display.run, line 124: Live.__enter__ takes the terminal.
DisplayEnter ==
  /\ pc["display"] = "enter"
  /\ terminal' = "acquired"
  /\ pc' = [pc EXCEPT !["display"] = "loop"]
  /\ UNCHANGED <<config, running, failure, queue, etlVars, history,
                 acc, percent, progress, snap, j, i, row>>

\* Mutant of the end of Display.run: the loop is not inside the with block,
\* so only the loop's own end gives the terminal back.
DisplayLeaveHeld(e) ==
  /\ terminal' = IF e = "none" THEN "released" ELSE terminal
  /\ pc' = [pc EXCEPT !["display"] = "done"]
  /\ failure' = [failure EXCEPT !["display"] = e]
  /\ Idle

\* The end of Display.run with exception e ("none": the loop ended):
\* Live.__exit__ of line 124 gives the terminal back on the way out.
DisplayLeave(e) ==
  /\ terminal' = "released"
  /\ pc' = [pc EXCEPT !["display"] = "done"]
  /\ failure' = [failure EXCEPT !["display"] = e]
  /\ Idle

\* Display.run, line 125: the test of self.running.
DisplayLoop ==
  /\ pc["display"] = "loop"
  /\ IF running["display"]
     THEN /\ pc' = [pc EXCEPT !["display"] = "pct1"]
          /\ UNCHANGED <<failure, dispVars>>
     ELSE DisplayLeave("none")
  /\ UNCHANGED <<config, running, queue, etlVars, history>>

\* ETL._percent_processed, line 97: self.n is read, for the numerator and
\* then for the denominator.
DisplayPctN ==
  /\ pc["display"] \in {"pct1", "pct2"}
  /\ acc' = Append(acc, n)
  /\ pc' = [pc EXCEPT !["display"] = IF @ = "pct1" THEN "pct2" ELSE "pct3"]
  /\ UNCHANGED <<config, running, failure, queue, etlVars, history,
                 terminal, percent, progress, snap, j, i, row>>

\* len(self.stream): Buffer.__len__ (53-54) is records.qsize(); an iterator
\* has no len() and the call raises TypeError.
StreamLen ==
  IF streamKind = "buffer"
  THEN [raised |-> "none", value |-> Len(queue)]
  ELSE [raised |-> "TypeError", value |-> 0]

\* The except clause of line 98.
Caught(e) == e = "AttributeError"

\* ETL._percent_processed, lines 96-99, from the two values read of self.n:
\* what it raises ("none": nothing) and what it returns (<<num, den>> for
\* num / den, <<>> for None).
PercentProcessed(n1, n2) ==
  LET len == StreamLen
      e == IF len.raised # "none" THEN len.raised
           ELSE IF n2 + len.value = 0 THEN "ZeroDivisionError"
           ELSE "none"
  IN  IF e = "none" THEN [raised |-> "none", value |-> <<n1, n2 + len.value>>]
      ELSE IF Caught(e) THEN [raised |-> "none", value |-> <<>>]
      ELSE [raised |-> e, value |-> <<>>]

\* ETL._percent_processed, line 97, the rest: len(self.stream) and the
\* division; then the test of line 133. An exception ends Display.run.
DisplayPctLen ==
  /\ pc["display"] = "pct3"
  /\ LET res == PercentProcessed(acc[1], acc[2])
     IN  IF res.raised = "none"
         THEN /\ percent' = res.value
              /\ acc' = <<>>
              /\ pc' = [pc EXCEPT !["display"] =
                          IF res.value # <<>> THEN "bar1" ELSE "snap"]
              /\ UNCHANGED <<failure, terminal, progress, snap, j, i, row>>
         ELSE DisplayLeave(res.raised)
  /\ UNCHANGED <<config, running, queue, etlVars, history>>

\* Display.run, line 135: total=self.etl.n + len(self.etl.stream), the read
\* of self.etl.n.
DisplayBarN ==
  /\ pc["display"] = "bar1"
  /\ acc' = <<n>>
  /\ percent' = <<>>
  /\ pc' = [pc EXCEPT !["display"] = "bar2"]
  /\ UNCHANGED <<config, running, failure, queue, etlVars, history,
                 terminal, progress, snap, j, i, row>>

\* Mutant of the call of len: the depth is found by emptying the queue.
DisplayBarLenDraining ==
  /\ pc["display"] = "bar2"
  /\ acc' = <<acc[1] + StreamLen.value>>
  /\ queue' = <<>>
  /\ pc' = [pc EXCEPT !["display"] = "bar3"]
  /\ UNCHANGED <<config, running, failure, etlVars, history,
                 terminal, percent, progress, snap, j, i, row>>

\* Display.run, line 135: total=self.etl.n + len(self.etl.stream), the call
\* of len.
DisplayBarLen ==
  /\ pc["display"] = "bar2"
  /\ acc' = <<acc[1] + StreamLen.value>>
  /\ pc' = [pc EXCEPT !["display"] = "bar3"]
  /\ UNCHANGED <<config, running, failure, queue, etlVars, history,
                 terminal, percent, progress, snap, j, i, row>>

\* Display.run, lines 134-137: completed=self.etl.n, and the ProgressBar.
DisplayBar ==
  /\ pc["display"] = "bar3"
  /\ progress' = <<acc[1], n>>
  /\ acc' = <<>>
  /\ pc' = [pc EXCEPT !["display"] = "snap"]
  /\ UNCHANGED <<config, running, failure, queue, etlVars, history,
                 terminal, percent, snap, j, i, row>>

\* list(agg.groups.items()), line 67: the entries Agg a has now.
Snapshot(a) == [m \in 1..Len(groups[a]) |-> groups[a][m].key]

\* _river_agg_to_rich_table, lines 58-67, for the next Agg of make_tables.
DisplaySnap ==
  /\ pc["display"] = "snap"
  /\ j' = j + 1
  /\ snap' = Snapshot(j + 1)
  /\ i' = 1
  /\ percent' = <<>>
  /\ progress' = <<>>
  /\ pc' = [pc EXCEPT !["display"] = "row"]
  /\ UNCHANGED <<config, running, failure, queue, etlVars, history,
                 terminal, acc, row>>

\* add_row of line 68: the key, and stat.get() of the statistic as it is now.
Formatted(a, key) ==
  LET stat == groups[a][IndexOf(groups[a], key)]
  IN  <<key, stat.n, stat.sum>>

\* _river_agg_to_rich_table, lines 67-72: the next row, or the table's end
\* and the next Agg's table.
DisplayRow ==
  /\ pc["display"] = "row"
  /\ IF i <= Len(snap)
     THEN /\ row' = Formatted(j, snap[i])
          /\ i' = i + 1
          /\ UNCHANGED <<pc, snap, j>>
     ELSE /\ row' = <<>>
          /\ i' = 0
          /\ snap' = <<>>
          /\ j' = IF j < NumAggs THEN j ELSE 0
          /\ pc' = [pc EXCEPT !["display"] = IF j < NumAggs THEN "snap" ELSE "update"]
  /\ UNCHANGED <<config, running, failure, queue, etlVars, history,
                 terminal, acc, percent, progress>>

\* Display.run, lines 139-143: the frame is handed to live.update.
DisplayUpdate ==
  /\ pc["display"] = "update"
  /\ pc' = [pc EXCEPT !["display"] = "loop"]
  /\ UNCHANGED <<config, dispVars, running, failure, queue, etlVars, history>>

\* --------------------------------------------------------------- Next ----

BufferStep == BufferLoop \/ BufferPut \/ BufferSourceEnds

EtlStep ==
  \/ EtlLoop
  \/ EtlIter
  \/ EtlGet
  \/ EtlRawNext
  \/ EtlRawEnds
  \/ EtlLookup
  \/ EtlUpdate
  \/ EtlIncr

Caller == \E t \in Tasks : Start(t) \/ Stop(t)

DisplayStep ==
  \/ DisplayEnter
  \/ DisplayLoop
  \/ DisplayPctN
  \/ DisplayPctLen
  \/ DisplayBarN
  \/ DisplayBarLen
  \/ DisplayBar
  \/ DisplaySnap
  \/ DisplayRow
  \/ DisplayUpdate

Next == Caller \/ BufferStep \/ EtlStep \/ DisplayStep

Spec == Init /\ [][Next]_vars

\* The interpreter gives every thread that can take a step a turn.
Fairness == WF_vars(BufferStep) /\ WF_vars(EtlStep) /\ WF_vars(DisplayStep)

FairSpec == Spec /\ Fairness

\* The same program over a source that never runs out, as silly_stream
\* (23-32) is.
LiveInit == \E kind \in {"buffer", "raw"} : InitWith(kind, FALSE)

LiveSpec == LiveInit /\ [][Next]_vars /\ Fairness

\* ------------------------------------------------------------- claims ----

\* The number of times r occurs in the sequence s.
Count(r, s) == Cardinality({m \in 1..Len(s) : s[m] = r})

\* C1: with one producer and one consumer, under every interleaving of puts
\* and drain steps, every record put is yielded by exactly one iteration of a
\* drain: each record was put as many times as it was yielded or is still in
\* the queue, so none is lost and none is yielded twice.
C1_NoLossNoDuplication ==
  \A r \in Records : Count(r, enqueued) = Count(r, yielded) + Count(r, queue)

\* A drain has yielded records while the producer put more behind them.
C1_Witness == yielded # <<>> /\ queue # <<>> /\ pc["etl"] = "incr"

\* C2: records leave the Buffer in the order they entered it, across any
\* number of drains interleaved with puts, and the depth that len() reports
\* is never negative.
C2_Fifo == enqueued = yielded \o queue /\ StreamLen.value >= 0

\* Two different records have been yielded, over two drains.
C2_Witness ==
  /\ Len(yielded) = 2
  /\ yielded[1] # yielded[2]
  /\ drain = "other"
  /\ pc["etl"] = "loop"

\* C3: as long as no drain has removed a record, the depth is the number of
\* records put; and a drain that began then and ran to its end with no put
\* meanwhile has yielded exactly those records, in the order they were put,
\* and has left the depth at 0.
C3_SequentialDrain ==
  /\ yielded = <<>> => StreamLen.value = Len(enqueued)
  /\ (drain = "clean" /\ pc["etl"] = "loop") =>
       (yielded = enqueued /\ StreamLen.value = 0)

\* A drain of MaxRecords records put before it began has ended.
C3_Witness ==
  /\ drain = "clean"
  /\ pc["etl"] = "loop"
  /\ Len(yielded) = MaxRecords

\* C4: no row that the Display formats shows a group whose statistic has
\* had no update.
C4_NoGhostRow == row # <<>> => row[2] > 0

\* C5: when the ETL was started after the Buffer thread ended, its counter n
\* never exceeds the number of records put, and once its loop runs it comes
\* to have counted them all, with the queue empty.
C5_ProcessesAll ==
  /\ [](lateStart => n <= Len(enqueued))
  /\ (lateStart /\ pc["etl"] = "iter") ~> (n = Len(enqueued) /\ queue = <<>>)

\* C6: over a raw iterator the progress query returns None: the Display that
\* made it is not ended by an exception and builds no progress bar.
C6_RawProgressIsNone ==
  streamKind = "raw" =>
    /\ failure["display"] = "none"
    /\ pc["display"] \notin {"bar1", "bar2", "bar3"}

\* C7: over a Buffer the progress query never raises and what it returns,
\* processed / (processed + pending), lies between 0 and 1.
C7_ProgressInRange ==
  streamKind = "buffer" =>
    /\ failure["display"] = "none"
    /\ percent # <<>> => (0 <= percent[1] /\ percent[1] <= percent[2] /\ percent[2] > 0)

\* C8: once stop() has been called on a running ETL, the ETL's loop
\* eventually sees the flag and the thread ends, under fair scheduling, also
\* while the Buffer keeps putting records.
EtlStopping == ~running["etl"] /\ pc["etl"] \notin {"created", "done"}

C8_StopLeadsToStopped == EtlStopping ~> (pc["etl"] = "done")

\* C9: after Buffer.stop() at most one more record is put, the one whose
\* pull was under way, and after that put the thread only tests the flag
\* and ends: it never pulls again.
C9_AtMostOnePutAfterStop ==
  /\ afterStop <= 1
  /\ afterStop = 1 => pc["buffer"] \in {"loop", "done"}

\* The pull under way at stop() was completed, and the thread has ended.
C9_Witness ==
  /\ afterStop = 1
  /\ pc["buffer"] = "done"
  /\ failure["buffer"] = "none"

\* The state of task t in the lifecycle created, running, stopping, stopped.
Lifecycle(t) ==
  IF pc[t] = "done" THEN 3
  ELSE IF pc[t] \in {"created", "absent"} THEN 0
  ELSE IF running[t] THEN 1
  ELSE 2

\* C10: in every step, whatever start() and stop() calls are made, no task
\* moves backward in its lifecycle: a flag that is false stays false and a
\* thread that has ended stays ended.
C10_OnlyForward ==
  [][\A t \in Tasks :
       /\ ~running[t] => ~running'[t]
       /\ pc[t] = "done" => pc'[t] = "done"
       /\ Lifecycle(t) <= Lifecycle(t)']_vars

\* Every task was started, was stopped while it ran and has ended.
C10_Witness ==
  /\ \A t \in Tasks : pc[t] = "done" /\ ~running[t] /\ failure[t] = "none"
  /\ n > 0

\* C11: the Display holds the terminal while its loop runs, and on every way
\* out of Display.run, the loop's end and an exception alike, the terminal
\* is released once the thread has ended.
C11_TerminalReleased ==
  /\ pc["display"] = "done" => terminal = "released"
  /\ pc["display"] \notin {"created", "enter", "done"} => terminal = "acquired"

\* The Display was ended by an exception of the progress query.
C11_Witness ==
  /\ pc["display"] = "done"
  /\ failure["display"] = "ZeroDivisionError"
  /\ terminal = "released"

\* C12: a record that lacks a field of one aggregation does not end the ETL:
\* no exception ends ETL.run.
C12_MissingFieldSkipped == failure["etl"] = "none"

\* The step in which the source's exception ends the Buffer thread.
SourceEnded == failure["buffer"] = "none" /\ failure'["buffer"] = "StopIteration"

\* C13: when the source is exhausted or fails, only the Buffer thread ends:
\* that step leaves the queue, the other threads and their flags as they
\* were, the queue then holds the records put and not yet yielded, in order,
\* and the ETL goes on to drain and count every record put.
C13_SourceFailureConfined ==
  /\ [][SourceEnded =>
          /\ UNCHANGED <<queue, running, etlVars, dispVars, enqueued, yielded>>
          /\ pc'["etl"] = pc["etl"]
          /\ pc'["display"] = pc["display"]]_vars
  /\ [](failure["buffer"] = "StopIteration" => enqueued = yielded \o queue)
  /\ (failure["buffer"] = "StopIteration" /\ pc["etl"] = "iter")
       ~> (n = Len(enqueued) /\ queue = <<>>)

\* The Display's position and locals.
DisplayState == <<pc["display"], dispVars>>

\* C14: no step of the Display changes an aggregation table, the counter n
\* or the queue, and only a step of the ETL's learn_one changes a table.
C14_DisplayReadOnly ==
  [][/\ DisplayState' # DisplayState => UNCHANGED <<groups, n, queue>>
     /\ groups' # groups => pc["etl"] \in {"look", "update"} /\ pc'["etl"] # pc["etl"]]_vars

\* The Display has made a whole frame, progress bar and tables, of a
\* pipeline with records counted and records pending.
C14_Witness ==
  /\ pc["display"] = "update"
  /\ n > 0
  /\ queue # <<>>
  /\ groups[1] # <<>>

\* The sum of field f over a sequence of records or of entries.
RECURSIVE Total(_, _)
Total(s, f) == IF s = <<>> THEN 0 ELSE s[1][f] + Total(Tail(s), f)

\* The record in the ETL's hands has been fed to Agg a.
FedTo(a) == record # NoRecord /\ (pc["etl"] = "incr" \/ k > a)

\* The records Agg a has been fed, in order.
IngestedBy(a) ==
  IF record # NoRecord /\ ~FedTo(a)
  THEN SubSeq(yielded, 1, Len(yielded) - 1)
  ELSE yielded

\* The records of s that fall under key in Agg a.
WithKey(s, a, key) ==
  SelectSeq(s, LAMBDA r : Aggs[a].by \in DOMAIN r /\ r[Aggs[a].by] = key)

\* C15: each table has one entry per group key seen and no other, and each
\* entry's mean is the mean of the values of exactly the records with its
\* key that the table was fed, each once (kept as count and sum); between
\* two records that is every record the ETL has processed.
C15_MeanPerKey ==
  streamKind = "buffer" =>
    /\ record = NoRecord => \A a \in 1..NumAggs : IngestedBy(a) = yielded
    /\ \A a \in 1..NumAggs :
         LET g == groups[a]
             rs == IngestedBy(a)
         IN /\ \A p, q \in 1..Len(g) : g[p].key = g[q].key => p = q
            /\ \A m \in 1..Len(rs) : IndexOf(g, rs[m][Aggs[a].by]) # 0
            /\ \A m \in 1..Len(g) :
                 /\ g[m].n = Len(WithKey(rs, a, g[m].key))
                 /\ g[m].sum = Total(WithKey(rs, a, g[m].key), Aggs[a].on)
                 /\ g[m].n = 0 =>
                      /\ pc["etl"] = "update"
                      /\ k = a
                      /\ record[Aggs[a].by] = g[m].key

\* Two records of one key have been processed and the ETL is between
\* records.
C15_Witness ==
  /\ streamKind = "buffer"
  /\ pc["etl"] = "iter"
  /\ record = NoRecord
  /\ n = 2
  /\ \E m \in 1..Len(groups[1]) : groups[1][m].n = 2 /\ groups[1][m].sum = -20

\* The number of records that every Agg has been fed.
Ingested ==
  LET fed == {Total(groups[a], "n") : a \in 1..NumAggs}
  IN CHOOSE v \in fed : \A w \in fed : v <= w

\* C16 as stated: at every moment n is the number of records whose
\* ingestion has completed.
C16_CountsIngested == n = Ingested

\* C16: n never decreases and goes up by one, for a record that every Agg
\* has been fed; n is the number of records ingested, less the one just
\* ingested while line 105 has not run for it.
C16_CountsAfterIngestion ==
  [][/\ n' = n \/ (n' = n + 1 /\ Ingested = n + 1 /\ pc["etl"] = "incr")
     /\ Ingested' = IF pc'["etl"] = "incr" THEN n' + 1 ELSE n']_vars

\* A record has been fed to every Agg and is not counted yet, after
\* another was counted.
C16_Witness == pc["etl"] = "incr" /\ n = 1 /\ Ingested = 2

\* C17: get() is only called on a queue that holds a record, so it never
\* waits, and a test that finds the queue empty ends the drain.
C17_DrainNeverBlocks ==
  [][/\ pc'["etl"] = "get" => queue' # <<>>
     /\ (pc["etl"] = "iter" /\ streamKind = "buffer" /\ queue = <<>>
           /\ pc'["etl"] # "iter") => pc'["etl"] = "loop"]_vars

\* The drain is about to remove a record while the Buffer thread is about
\* to put another.
C17_Witness ==
  /\ pc["etl"] = "get"
  /\ Len(queue) = 1
  /\ pc["buffer"] = "pull"
  /\ yielded # <<>>

\* A drain that yielded nothing has just ended.
EmptyDrainEnded == pc["etl"] = "loop" /\ drain = "clean" /\ yielded = <<>>

\* C18: after a drain that yielded nothing the ETL does not go on to the
\* next drain; a suspend would have to come first.
C18_SuspendsWhenEmpty == [][~(EmptyDrainEnded /\ pc'["etl"] = "iter")]_vars

\* C19: the ProgressBar's completed is at most its total.
C19_CompletedAtMostTotal == progress # <<>> => progress[2] <= progress[1]

\* The records taken from the queue and not yet counted.
InFlight == IF record = NoRecord THEN 0 ELSE 1

\* C20: the records put are those in the queue, those counted and the one
\* taken and not yet counted, so n plus the depth is at most the number put.
C20_Conservation ==
  streamKind = "buffer" =>
    /\ Len(enqueued) = Len(queue) + n + InFlight
    /\ InFlight = Len(yielded) - n
    /\ n + StreamLen.value <= Len(enqueued)

\* Of the records put, one is in the ETL's hands and not yet counted, and
\* another is either counted or still in the queue.
C20_Witness ==
  /\ streamKind = "buffer"
  /\ InFlight = 1
  /\ Len(queue) + n = 1

====
